---- MODULE Spec2Model ----
(***************************************************************************)
(* Availability and booking engine of the booking platform:                *)
(*   ScheduleService   (app/services/schedule_service.py)                   *)
(*   BookingService    (app/services/booking_service.py)                    *)
(*   BookingRepository (app/repositories/booking_repository.py)             *)
(*   bookings router   (backend/app/api/v1/bookings.py)                     *)
(*                                                                         *)
(* Time is counted in ticks.  A calendar day has DayLen ticks; tick t lies  *)
(* on date t \div DayLen at time-of-day t % DayLen.  All timestamps are in  *)
(* one timezone (UTC), so dropping the tzinfo of a stored timestamp keeps   *)
(* its wall-clock value.                                                    *)
(***************************************************************************)
EXTENDS Integers, Sequences, FiniteSets, TLC

\* ------------------------------------------------------------------ bounds
DayLen == 4          \* ticks per calendar day
NumDays == 2         \* dates 0 (Monday) .. NumDays-1; date -1 (Sunday) is in the past
MaxBookings == 2     \* bookings ever inserted
MaxDuration == 2     \* slot durations tried, in ticks
MaxInterval == 2     \* slot granularities tried, in ticks

\* ------------------------------------------------------------ value spaces
Times == (0 - DayLen) .. (NumDays * DayLen - 1)
Dates == (0 - 1) .. (NumDays - 1)
Employees == {"e1", "e2"}
Customers == {"c1", "c2"}
Locations == {"l1"}
VariantIds == {"v1", "v2", "v9"}
Notes == {"n1", "n2"}
Procs == {"p1", "p2"}

\* Optional[T]: None is the empty sequence, a present value x is <<x>>.
None == <<>>
Some(x) == <<x>>
Optional(S) == {None} \cup {Some(x) : x \in S}

\* BookingStatusEnum
BookingStatusEnum == {"pending", "confirmed", "completed", "cancelled", "no_show"}

VARIABLES
  working_hours,     \* rows of table working_hours
  internal_events,   \* rows of table internal_events
  service_variants,  \* rows of table service_variants
  employee_skills,   \* rows of table employee_skills
  bookings,          \* rows of table bookings
  nextId,            \* next fresh booking id
  now,               \* the clock read by datetime.now()
  observe,           \* whether the client's view of responses is recorded
  last,              \* response of the last completed call (when observed)
  procs              \* in-flight requests of the concurrent specification

vars == <<working_hours, internal_events, service_variants, employee_skills,
          bookings, nextId, now, observe, last, procs>>

store == <<working_hours, internal_events, service_variants, employee_skills>>

\* ------------------------------------------------------------ time helpers
TimeOfDay(t) == t % DayLen
DateOf(t) == t \div DayLen
isoweekday(t) == (DateOf(t) % 7) + 1

\* ORDER BY start_time ASC of a set of rows
RECURSIVE OrderByStart(_)
OrderByStart(S) ==
  IF S = {} THEN <<>>
  ELSE LET m == CHOOSE x \in S : \A y \in S : x.start_time <= y.start_time
       IN <<m>> \o OrderByStart(S \ {m})

\* ------------------------------------------------------------ repositories
get_working_hours_for_day(employee_id, day_of_week) ==
  OrderByStart({wh \in working_hours :
                  wh.employee_id = employee_id /\ wh.day_of_week = day_of_week})

\* start_date / end_date are given in half ticks so that the end of a day
\* (23:59:59.999999) can be passed: it is 2 * midnight - 1.
get_employee_internal_events(employee_id, start_date2, end_date2) ==
  OrderByStart({ev \in internal_events :
                  /\ ev.employee_id = employee_id
                  /\ 2 * ev.end_time >= start_date2
                  /\ 2 * ev.start_time <= end_date2})

get_employee_bookings_in_range(employee_id, start_time2, end_time2) ==
  OrderByStart({b \in bookings :
                  /\ b.employee_id = employee_id
                  /\ b.status \notin {"cancelled", "no_show"}
                  /\ \/ (2 * b.start_time < end_time2 /\ 2 * b.end_time > start_time2)
                     \/ (2 * b.start_time >= start_time2 /\ 2 * b.start_time < end_time2)})

get_booking_by_id(booking_id) == {b \in bookings : b.id = booking_id}

get_service_variant_by_id(variant_id) ==
  {sv \in service_variants : sv.id = variant_id}

\* get_employee_skills without the WHERE clause (variant used to validate C17)
get_employee_skills_AnyEmployee(employee_id) ==
  {sk \in employee_skills : TRUE}

get_employee_skills(employee_id) ==
  {sk \in employee_skills : sk.employee_id = employee_id}

\* --------------------------------------------------------- ScheduleService
\* _times_overlap on closed intervals (variant used to validate C14)
_times_overlap_Closed(start1, end1, start2, end2) == start1 <= end2 /\ start2 <= end1

_times_overlap(start1, end1, start2, end2) == start1 < end2 /\ start2 < end1

NoReason == [kind |-> "none"]
Available == [is_available |-> TRUE, reason |-> NoReason]
Unavailable(r) == [is_available |-> FALSE, reason |-> r]

ShiftWindows(whs) == [i \in 1 .. Len(whs) |-> <<whs[i].start_time, whs[i].end_time>>]

check_availability(employee_id, start_time, end_time) ==
  LET day_of_week == isoweekday(start_time)
      whs == get_working_hours_for_day(employee_id, day_of_week)
      booking_start_time == TimeOfDay(start_time)
      booking_end_time == TimeOfDay(end_time)
      is_within_working_hours ==
        \E i \in 1 .. Len(whs) :
          whs[i].start_time <= booking_start_time /\ booking_end_time <= whs[i].end_time
      evs == get_employee_internal_events(employee_id, 2 * start_time, 2 * end_time)
      hits == {i \in 1 .. Len(evs) :
                 _times_overlap(start_time, end_time, evs[i].start_time, evs[i].end_time)}
  IN IF Len(whs) = 0
       THEN Unavailable([kind |-> "not_working", day |-> day_of_week])
     ELSE IF ~is_within_working_hours
       THEN Unavailable([kind |-> "outside_hours", hours |-> ShiftWindows(whs)])
     ELSE IF hits # {}
       THEN LET i == CHOOSE j \in hits : \A k \in hits : j <= k
            IN Unavailable([kind |-> "internal_event", type |-> evs[i].type,
                            start_time |-> evs[i].start_time,
                            end_time |-> evs[i].end_time])
     ELSE Available

\* ShiftSlots without the internal-event test (variant used to validate C6)
RECURSIVE ShiftSlots_SkipEvents(_, _, _, _, _, _)
ShiftSlots_SkipEvents(current_slot_start, shift_end, duration, interval, evs, bks) ==
  IF current_slot_start + duration <= shift_end
    THEN LET slot_end == current_slot_start + duration
             has_conflict ==
               \E i \in 1 .. Len(bks) :
                 _times_overlap(current_slot_start, slot_end,
                                bks[i].start_time, bks[i].end_time)
             here == IF has_conflict THEN <<>>
                     ELSE <<[start_time |-> current_slot_start, end_time |-> slot_end]>>
         IN here \o ShiftSlots_SkipEvents(current_slot_start + interval, shift_end,
                                          duration, interval, evs, bks)
    ELSE <<>>

\* one shift's cursor walk of get_available_slots
RECURSIVE ShiftSlots(_, _, _, _, _, _)
ShiftSlots(current_slot_start, shift_end, duration, interval, evs, bks) ==
  IF current_slot_start + duration <= shift_end
    THEN LET slot_end == current_slot_start + duration
             has_conflict ==
               \/ \E i \in 1 .. Len(evs) :
                    _times_overlap(current_slot_start, slot_end,
                                   evs[i].start_time, evs[i].end_time)
               \/ \E i \in 1 .. Len(bks) :
                    _times_overlap(current_slot_start, slot_end,
                                   bks[i].start_time, bks[i].end_time)
             here == IF has_conflict THEN <<>>
                     ELSE <<[start_time |-> current_slot_start, end_time |-> slot_end]>>
         IN here \o ShiftSlots(current_slot_start + interval, shift_end,
                               duration, interval, evs, bks)
    ELSE <<>>

\* variant: each shift is walked to the end of the day, not to its own end
RECURSIVE AllShiftSlots_ToEndOfDay(_, _, _, _, _, _)
AllShiftSlots_ToEndOfDay(whs, date, duration, interval, evs, bks) ==
  IF Len(whs) = 0 THEN <<>>
  ELSE LET shift == Head(whs)
           shift_start == date * DayLen + shift.start_time
           shift_end == (date + 1) * DayLen
       IN ShiftSlots(shift_start, shift_end, duration, interval, evs, bks)
          \o AllShiftSlots_ToEndOfDay(Tail(whs), date, duration, interval, evs, bks)

RECURSIVE AllShiftSlots(_, _, _, _, _, _)
AllShiftSlots(whs, date, duration, interval, evs, bks) ==
  IF Len(whs) = 0 THEN <<>>
  ELSE LET shift == Head(whs)
           shift_start == date * DayLen + shift.start_time
           shift_end == date * DayLen + shift.end_time
       IN ShiftSlots(shift_start, shift_end, duration, interval, evs, bks)
          \o AllShiftSlots(Tail(whs), date, duration, interval, evs, bks)

get_available_slots(employee_id, date, duration_minutes, slot_interval_minutes) ==
  LET day_of_week == isoweekday(date * DayLen)
      whs == get_working_hours_for_day(employee_id, day_of_week)
      day_start2 == 2 * (date * DayLen)
      day_end2 == 2 * ((date + 1) * DayLen) - 1
      evs == get_employee_internal_events(employee_id, day_start2, day_end2)
      bks == get_employee_bookings_in_range(employee_id, day_start2, day_end2)
  IN IF Len(whs) = 0 THEN <<>>
     ELSE AllShiftSlots(whs, date, duration_minutes, slot_interval_minutes, evs, bks)

\* ---------------------------------------------------------- BookingService
NoBooking == [id |-> 0]

\* calculate_booking_price pricing a missing variant at 0 instead of raising
\* (variant used to validate C18)
calculate_booking_price_MissingIsFree(employee_id, service_variant_id) ==
  LET svs == get_service_variant_by_id(service_variant_id)
      overrides == {sk \in get_employee_skills(employee_id) :
                      /\ sk.service_variant_id = service_variant_id
                      /\ sk.custom_price # None}
  IN IF svs = {} THEN [found |-> TRUE, price |-> 0]
     ELSE IF overrides # {}
       THEN [found |-> TRUE, price |-> (CHOOSE sk \in overrides : TRUE).custom_price[1]]
     ELSE [found |-> TRUE, price |-> (CHOOSE sv \in svs : TRUE).price]

\* Pricing: base price of the variant, overridden by the employee's
\* non-null custom price for exactly that variant.
calculate_booking_price(employee_id, service_variant_id) ==
  LET svs == get_service_variant_by_id(service_variant_id)
      overrides == {sk \in get_employee_skills(employee_id) :
                      /\ sk.service_variant_id = service_variant_id
                      /\ sk.custom_price # None}
  IN IF svs = {} THEN [found |-> FALSE, price |-> 0]
     ELSE IF overrides # {}
       THEN [found |-> TRUE, price |-> (CHOOSE sk \in overrides : TRUE).custom_price[1]]
     ELSE [found |-> TRUE, price |-> (CHOOSE sv \in svs : TRUE).price]

\* BookingCreate without validate_future_time (variant used to validate C21)
BookingCreate_valid_NoPastTest(req) ==
  ~(req.end_time <= req.start_time)

\* pydantic validators of BookingCreate
BookingCreate_valid(req) ==
  /\ ~(req.start_time < now)
  /\ ~(req.end_time <= req.start_time)

\* pydantic validators of BookingUpdate
BookingUpdate_valid(upd) ==
  /\ (upd.start_time # None => ~(upd.start_time[1] < now))
  /\ (upd.start_time # None /\ upd.end_time # None
        => ~(upd.end_time[1] <= upd.start_time[1]))

Response(outcome, message, reason, booking) ==
  [outcome |-> outcome, message |-> message, reason |-> reason, booking |-> booking]

\* NewBooking losing the customer's note (variant used to validate C9)
NewBooking_DropNote(req, total_price, id) ==
  [id |-> id,
   customer_id |-> req.customer_id,
   location_id |-> req.location_id,
   employee_id |-> req.employee_id,
   service_variant_id |-> req.service_variant_id,
   start_time |-> req.start_time,
   end_time |-> req.end_time,
   status |-> "pending",
   total_price |-> total_price,
   customer_note |-> None]

\* the row INSERTed by BookingRepository.create_booking
NewBooking(req, total_price, id) ==
  [id |-> id,
   customer_id |-> req.customer_id,
   location_id |-> req.location_id,
   employee_id |-> req.employee_id,
   service_variant_id |-> req.service_variant_id,
   start_time |-> req.start_time,
   end_time |-> req.end_time,
   status |-> "pending",
   total_price |-> total_price,
   customer_note |-> req.customer_note]

\* create_booking_check raising the conflict without the verdict's reason
\* (variant used to validate C10)
create_booking_check_NoReason(req) ==
  LET availability == check_availability(req.employee_id, req.start_time, req.end_time)
      price == calculate_booking_price(req.employee_id, req.service_variant_id)
  IN IF ~BookingCreate_valid(req)
       THEN Response("validation", "invalid booking request", NoReason, NoBooking)
     ELSE IF ~availability.is_available
       THEN Response("conflict", "Employee not available", NoReason, NoBooking)
     ELSE IF ~price.found
       THEN Response("not_found", "Service variant not found", NoReason, NoBooking)
     ELSE Response("proceed", "", NoReason, NewBooking(req, price.price, 0))

\* BookingService.create_booking up to (not including) the INSERT:
\* the response when the call fails, or "proceed" with the resolved price.
create_booking_check(req) ==
  LET availability == check_availability(req.employee_id, req.start_time, req.end_time)
      price == calculate_booking_price(req.employee_id, req.service_variant_id)
  IN IF ~BookingCreate_valid(req)
       THEN Response("validation", "invalid booking request", NoReason, NoBooking)
     ELSE IF ~availability.is_available
       THEN Response("conflict", "Employee not available", availability.reason, NoBooking)
     ELSE IF ~price.found
       THEN Response("not_found", "Service variant not found", NoReason, NoBooking)
     ELSE Response("proceed", "", NoReason, NewBooking(req, price.price, 0))

\* variant: a new start given alone carries the end along, keeping the length
UpdatedBooking_KeepsLength(b, upd) ==
  [b EXCEPT !.start_time = IF upd.start_time # None THEN upd.start_time[1] ELSE @,
            !.end_time = IF upd.end_time # None THEN upd.end_time[1]
                         ELSE IF upd.start_time # None
                           THEN @ + (upd.start_time[1] - b.start_time)
                         ELSE @,
            !.customer_note = IF upd.customer_note # None THEN upd.customer_note ELSE @]

\* the row after BookingRepository.update_booking(booking_id, update_dict)
UpdatedBooking(b, upd) ==
  [b EXCEPT !.start_time = IF upd.start_time # None THEN upd.start_time[1] ELSE @,
            !.end_time = IF upd.end_time # None THEN upd.end_time[1] ELSE @,
            !.customer_note = IF upd.customer_note # None THEN upd.customer_note ELSE @]

\* reschedule_booking_check with a booking test that does not leave out the
\* booking being moved (variant used to validate C15)
reschedule_booking_check_CountsSelf(booking_id, upd) ==
  LET found == get_booking_by_id(booking_id)
      existing == CHOOSE b \in found : TRUE
      new_start == IF upd.start_time # None THEN upd.start_time[1] ELSE existing.start_time
      new_end == IF upd.end_time # None THEN upd.end_time[1] ELSE existing.end_time
      availability == check_availability(existing.employee_id, new_start, new_end)
      taken == get_employee_bookings_in_range(existing.employee_id, 2 * new_start, 2 * new_end)
  IN IF ~BookingUpdate_valid(upd)
       THEN Response("validation", "invalid booking update", NoReason, NoBooking)
     ELSE IF found = {}
       THEN Response("not_found", "Booking not found", NoReason, NoBooking)
     ELSE IF ~availability.is_available \/ Len(taken) > 0
       THEN Response("conflict", "New time slot not available", availability.reason, NoBooking)
     ELSE Response("proceed", "", NoReason, NoBooking)

\* BookingService.reschedule_booking up to (not including) the UPDATE
reschedule_booking_check(booking_id, upd) ==
  LET found == get_booking_by_id(booking_id)
      existing == CHOOSE b \in found : TRUE
      new_start == IF upd.start_time # None THEN upd.start_time[1] ELSE existing.start_time
      new_end == IF upd.end_time # None THEN upd.end_time[1] ELSE existing.end_time
      availability == check_availability(existing.employee_id, new_start, new_end)
  IN IF ~BookingUpdate_valid(upd)
       THEN Response("validation", "invalid booking update", NoReason, NoBooking)
     ELSE IF found = {}
       THEN Response("not_found", "Booking not found", NoReason, NoBooking)
     ELSE IF ~availability.is_available
       THEN Response("conflict", "New time slot not available", availability.reason, NoBooking)
     ELSE Response("proceed", "", NoReason, NoBooking)

\* the UPDATE of reschedule_booking: an empty SET list is a statement the
\* database rejects, a missing row gives not-found.
reschedule_booking_write(booking_id, upd) ==
  LET found == get_booking_by_id(booking_id)
  IN IF upd.start_time = None /\ upd.end_time = None /\ upd.customer_note = None
       THEN Response("server_error", "empty UPDATE", NoReason, NoBooking)
     ELSE IF found = {}
       THEN Response("not_found", "Booking not found", NoReason, NoBooking)
     ELSE Response("ok", "", NoReason, UpdatedBooking(CHOOSE b \in found : TRUE, upd))

\* cancel_booking_check refusing only cancelled bookings (variant used to
\* validate C11)
cancel_booking_check_OnlyCancelled(booking_id) ==
  LET found == get_booking_by_id(booking_id)
      booking == CHOOSE b \in found : TRUE
  IN IF found = {}
       THEN Response("not_found", "Booking not found", NoReason, NoBooking)
     ELSE IF booking.status \in {"cancelled"}
       THEN Response("conflict", "Cannot cancel booking with status",
                     [kind |-> "status", status |-> booking.status], NoBooking)
     ELSE Response("proceed", "", NoReason, NoBooking)

\* BookingService.cancel_booking up to (not including) the UPDATE
cancel_booking_check(booking_id) ==
  LET found == get_booking_by_id(booking_id)
      booking == CHOOSE b \in found : TRUE
  IN IF found = {}
       THEN Response("not_found", "Booking not found", NoReason, NoBooking)
     ELSE IF booking.status \in {"cancelled", "completed"}
       THEN Response("conflict", "Cannot cancel booking with status",
                     [kind |-> "status", status |-> booking.status], NoBooking)
     ELSE Response("proceed", "", NoReason, NoBooking)

\* update_booking_status that also clears the note (variant used to
\* validate C12)
update_booking_status_ClearNote(booking_id, status) ==
  LET found == get_booking_by_id(booking_id)
  IN IF found = {}
       THEN Response("not_found", "Booking not found", NoReason, NoBooking)
     ELSE Response("ok", "", NoReason,
                   [(CHOOSE b \in found : TRUE) EXCEPT !.status = status,
                                                       !.customer_note = None])

\* BookingRepository.update_booking_status
update_booking_status(booking_id, status) ==
  LET found == get_booking_by_id(booking_id)
  IN IF found = {}
       THEN Response("not_found", "Booking not found", NoReason, NoBooking)
     ELSE Response("ok", "", NoReason, [(CHOOSE b \in found : TRUE) EXCEPT !.status = status])

\* variant: the write replaces the whole table by the one row
Replace_OnlyRow(bks, b) == {b}

\* replace the row with the id of b by b
Replace(bks, b) == {x \in bks : x.id # b.id} \cup {b}

\* ------------------------------------------------------------ input spaces
\* Monday is date 0 (ticks 0 .. DayLen-1), Tuesday is date 1.
BaseWorkingHours ==
  { [employee_id |-> "e1", day_of_week |-> 1, start_time |-> 0, end_time |-> 2],
    [employee_id |-> "e1", day_of_week |-> 1, start_time |-> 2, end_time |-> 3],
    [employee_id |-> "e2", day_of_week |-> 1, start_time |-> 0, end_time |-> 3] }

ExtraWorkingHours ==
  { [employee_id |-> "e1", day_of_week |-> 1, start_time |-> 1, end_time |-> 3] }

InternalEventRows ==
  { [employee_id |-> "e1", type |-> "vacation", start_time |-> 1, end_time |-> 2],
    [employee_id |-> "e2", type |-> "meeting", start_time |-> 2, end_time |-> 3] }

ServiceVariantRows ==
  { [id |-> "v1", price |-> 500, duration_minutes |-> 1],
    [id |-> "v2", price |-> 300, duration_minutes |-> 2] }

EmployeeSkillRows ==
  { [employee_id |-> "e1", service_variant_id |-> "v1", custom_price |-> Some(400)],
    [employee_id |-> "e1", service_variant_id |-> "v2", custom_price |-> None],
    [employee_id |-> "e2", service_variant_id |-> "v2", custom_price |-> Some(250)] }

BookingCreate(customer_id, employee_id, service_variant_id, start_time, end_time, total_price, customer_note) ==
  [customer_id |-> customer_id, location_id |-> "l1", employee_id |-> employee_id,
   service_variant_id |-> service_variant_id, start_time |-> start_time,
   end_time |-> end_time, total_price |-> total_price, customer_note |-> customer_note]

\* the requests the model sends to POST /bookings/
CreateRequests ==
  { BookingCreate("c1", "e1", "v1", 0, 1, None, None),
    BookingCreate("c2", "e1", "v2", 0, 2, Some(999), Some("n1")),
    BookingCreate("c1", "e1", "v1", 1, 2, None, Some("n1")),
    BookingCreate("c2", "e2", "v2", 1, 3, None, None),
    BookingCreate("c1", "e2", "v1", 2, 5, None, None),
    BookingCreate("c1", "e1", "v9", 0, 1, None, None),
    BookingCreate("c1", "e1", "v1", 1, 3, None, None),
    BookingCreate("c1", "e1", "v1", 5, 6, None, None),
    BookingCreate("c1", "e2", "v1", 2, 2, None, None),
    BookingCreate("c1", "e1", "v1", 0 - 1, 1, None, None) }

BookingUpdate(start_time, end_time, customer_note) ==
  [start_time |-> start_time, end_time |-> end_time, customer_note |-> customer_note]

\* the requests the model sends to PUT /bookings/{booking_id}
UpdateRequests ==
  { BookingUpdate(None, None, Some("n2")),
    BookingUpdate(Some(1), Some(2), None),
    BookingUpdate(Some(1), None, None),
    BookingUpdate(None, Some(3), None),
    BookingUpdate(None, None, None),
    BookingUpdate(Some(2), Some(1), None),
    BookingUpdate(Some(0 - 1), Some(2), None) }

\* the requests sent where every operation and every status is exercised
CoreCreateRequests ==
  CreateRequests \ { BookingCreate("c1", "e1", "v1", 1, 2, None, Some("n1")),
                     BookingCreate("c1", "e2", "v1", 2, 5, None, None) }

CoreUpdateRequests ==
  UpdateRequests \ { BookingUpdate(None, None, Some("n2")),
                     BookingUpdate(Some(1), Some(2), None) }

BookingIds == 1 .. (MaxBookings + 1)

Idle == [pc |-> "idle", raced |-> {}]

\* -------------------------------------------------------------------- Init
NoCall == [op |-> "none"] @@ Response("none", "", NoReason, NoBooking)

InitStore ==
  /\ working_hours \in {BaseWorkingHours \cup x : x \in SUBSET ExtraWorkingHours}
  /\ internal_events \in {{}, InternalEventRows}
  /\ service_variants = ServiceVariantRows
  /\ employee_skills = EmployeeSkillRows
  /\ bookings = {}
  /\ nextId = 1
  /\ now = 0
  /\ last = NoCall
  /\ procs = [p \in Procs |-> Idle]

Init == InitStore /\ observe = FALSE

InitObserved == InitStore /\ observe = TRUE

\* ------------------------------------------------- calls run to completion
Returns(op, res) == last' = IF observe THEN [op |-> op] @@ res ELSE last

\* variant: a total_price sent by the caller is stored as it is
CreateBooking_TrustsRequestPrice(req) ==
  LET chk == create_booking_check(req)
      created == [chk.booking EXCEPT !.id = nextId,
                                     !.total_price = IF req.total_price # None
                                                       THEN req.total_price[1] ELSE @]
  IN /\ (chk.outcome = "proceed" => nextId <= MaxBookings)
     /\ bookings' = IF chk.outcome = "proceed" THEN bookings \cup {created} ELSE bookings
     /\ nextId' = IF chk.outcome = "proceed" THEN nextId + 1 ELSE nextId
     /\ Returns("create", IF chk.outcome = "proceed"
                            THEN Response("ok", "", NoReason, created) ELSE chk)
     /\ UNCHANGED <<store, now, observe, procs>>

\* POST /bookings/
CreateBooking(req) ==
  LET chk == create_booking_check(req)
      created == [chk.booking EXCEPT !.id = nextId]
  IN /\ (chk.outcome = "proceed" => nextId <= MaxBookings)
     /\ bookings' = IF chk.outcome = "proceed" THEN bookings \cup {created} ELSE bookings
     /\ nextId' = IF chk.outcome = "proceed" THEN nextId + 1 ELSE nextId
     /\ Returns("create", IF chk.outcome = "proceed"
                            THEN Response("ok", "", NoReason, created) ELSE chk)
     /\ UNCHANGED <<store, now, observe, procs>>

\* PUT /bookings/{booking_id}
RescheduleBooking(booking_id, upd) ==
  LET chk == reschedule_booking_check(booking_id, upd)
      res == IF chk.outcome = "proceed"
               THEN reschedule_booking_write(booking_id, upd) ELSE chk
  IN /\ bookings' = IF res.outcome = "ok" THEN Replace(bookings, res.booking) ELSE bookings
     /\ Returns("reschedule", res)
     /\ UNCHANGED <<store, nextId, now, observe, procs>>

\* BookingService.cancel_booking
CancelBooking(booking_id) ==
  LET chk == cancel_booking_check(booking_id)
      res == IF chk.outcome = "proceed"
               THEN update_booking_status(booking_id, "cancelled") ELSE chk
  IN /\ bookings' = IF res.outcome = "ok" THEN Replace(bookings, res.booking) ELSE bookings
     /\ Returns("cancel", res)
     /\ UNCHANGED <<store, nextId, now, observe, procs>>

\* PATCH /bookings/{booking_id}/status
UpdateBookingStatus(booking_id, status) ==
  LET res == update_booking_status(booking_id, status)
  IN /\ bookings' = IF res.outcome = "ok" THEN Replace(bookings, res.booking) ELSE bookings
     /\ Returns("set_status", res)
     /\ UNCHANGED <<store, nextId, now, observe, procs>>

Next ==
  \/ \E req \in CoreCreateRequests : CreateBooking(req)
  \/ \E id \in BookingIds, upd \in CoreUpdateRequests : RescheduleBooking(id, upd)
  \/ \E id \in BookingIds : CancelBooking(id)
  \/ \E id \in BookingIds, st \in BookingStatusEnum : UpdateBookingStatus(id, st)

Spec == Init /\ [][Next]_vars

\* Calls to create, with cancel and no-show marking, responses observed.
NextCreate ==
  \/ \E req \in CreateRequests : CreateBooking(req)
  \/ \E id \in BookingIds : CancelBooking(id)
  \/ \E id \in BookingIds : UpdateBookingStatus(id, "no_show")

SpecCreate == InitObserved /\ [][NextCreate]_vars

\* ------------------------------------------------ calls that interleave
\* Every request runs on its own pooled connection, whose transaction commits
\* when the request ends, and a coroutine can be suspended at each await.
\* The reads of create_booking / reschedule_booking before the write touch
\* bookings only in get_booking_by_id, so one step models the part of the
\* call up to the write and a second step the INSERT / UPDATE with the
\* commit that follows it.
ConcCreateRequests ==
  { BookingCreate("c1", "e1", "v1", 0, 1, None, None),
    BookingCreate("c2", "e1", "v2", 0, 2, Some(999), Some("n1")),
    BookingCreate("c2", "e2", "v2", 1, 2, None, None),
    BookingCreate("c1", "e1", "v1", 2, 3, None, None),
    BookingCreate("c1", "e1", "v1", 5, 6, None, None) }

ConcUpdateRequests ==
  { BookingUpdate(Some(1), Some(2), None),
    BookingUpdate(None, Some(2), None),
    BookingUpdate(Some(2), Some(1), None) }

InFlight(q) == procs[q].pc \in {"create_write", "reschedule_write"}
Started == \E q \in Procs : procs[q].pc # "idle"
PendingInserts == Cardinality({q \in Procs : procs[q].pc = "create_write"})

\* p starts a call: its record (seen is the store the call started from),
\* and the mark on the calls it overlaps with
Begin(p, op, id, req, target, chk) ==
  LET others == {q \in Procs \ {p} : InFlight(q)}
      mine == [pc |-> IF chk.outcome = "proceed" THEN op \o "_write" ELSE "done",
               op |-> op, id |-> id, req |-> req, target |-> target,
               res |-> chk, raced |-> others, seen |-> bookings]
  IN procs' = [q \in Procs |->
                 IF q = p THEN mine
                 ELSE IF q \in others
                   THEN [procs[q] EXCEPT !.raced = @ \cup {p}]
                 ELSE procs[q]]

\* a call made and finished before any interleaved call starts
Setup(req) == ~Started /\ CreateBooking(req)

\* create_booking: validation, check_availability, calculate_booking_price
CreateBegin(p, req) ==
  LET chk == create_booking_check(req)
  IN /\ procs[p].pc = "idle"
     /\ (chk.outcome = "proceed" => nextId + PendingInserts <= MaxBookings)
     /\ Begin(p, "create", 0, req,
              <<req.employee_id, req.start_time, req.end_time>>, chk)
     /\ UNCHANGED <<store, bookings, nextId, now, observe, last>>

\* create_booking: booking_repo.create_booking
CreateWrite(p) ==
  LET created == [procs[p].res.booking EXCEPT !.id = nextId]
  IN /\ procs[p].pc = "create_write"
     /\ bookings' = bookings \cup {created}
     /\ nextId' = nextId + 1
     /\ procs' = [procs EXCEPT ![p].pc = "done",
                               ![p].res = Response("ok", "", NoReason, created)]
     /\ UNCHANGED <<store, now, observe, last>>

\* the interval a reschedule asks for, from the row it loaded
RescheduleTarget(booking_id, upd) ==
  LET found == get_booking_by_id(booking_id)
      existing == CHOOSE b \in found : TRUE
  IN IF found = {} THEN <<"", 0, 0>>
     ELSE <<existing.employee_id,
            IF upd.start_time # None THEN upd.start_time[1] ELSE existing.start_time,
            IF upd.end_time # None THEN upd.end_time[1] ELSE existing.end_time>>

\* reschedule_booking: validation, get_booking_by_id, check_availability
RescheduleBegin(p, booking_id, upd) ==
  /\ procs[p].pc = "idle"
  /\ Begin(p, "reschedule", booking_id, upd, RescheduleTarget(booking_id, upd),
           reschedule_booking_check(booking_id, upd))
  /\ UNCHANGED <<store, bookings, nextId, now, observe, last>>

\* reschedule_booking: booking_repo.update_booking
RescheduleWrite(p) ==
  LET res == reschedule_booking_write(procs[p].id, procs[p].req)
  IN /\ procs[p].pc = "reschedule_write"
     /\ bookings' = IF res.outcome = "ok" THEN Replace(bookings, res.booking) ELSE bookings
     /\ procs' = [procs EXCEPT ![p].pc = "done", ![p].res = res]
     /\ UNCHANGED <<store, nextId, now, observe, last>>

NextConc ==
  \/ \E req \in ConcCreateRequests : Setup(req)
  \/ \E p \in Procs, req \in ConcCreateRequests : CreateBegin(p, req)
  \/ \E p \in Procs : CreateWrite(p)
  \/ \E p \in Procs, id \in BookingIds, upd \in ConcUpdateRequests :
       RescheduleBegin(p, id, upd)
  \/ \E p \in Procs : RescheduleWrite(p)

SpecConc == Init /\ [][NextConc]_vars

\* ------------------------------------------------------- claim vocabulary
Active(b) == b.status \notin {"cancelled", "no_show"}
Overlap(s1, e1, s2, e2) == s1 < e2 /\ s2 < e1

\* the interval lies on one calendar day inside one working-hours rule
InsideRule(employee_id, s, e) ==
  /\ DateOf(s) = DateOf(e)
  /\ \E wh \in working_hours :
       /\ wh.employee_id = employee_id
       /\ wh.day_of_week = isoweekday(s)
       /\ wh.start_time <= TimeOfDay(s)
       /\ TimeOfDay(e) <= wh.end_time

NoEventIn(employee_id, s, e) ==
  \A ev \in internal_events :
    ev.employee_id = employee_id => ~Overlap(s, e, ev.start_time, ev.end_time)

Intervals == {<<s, e>> \in Times \X Times : s < e}

\* C1: no two stored bookings of one staff member that are both outside
\* cancelled / no_show overlap (half-open intervals).
C1_NoDoubleBooking ==
  \A a \in bookings, b \in bookings :
    (a.id # b.id /\ a.employee_id = b.employee_id /\ Active(a) /\ Active(b))
      => ~(a.start_time < b.end_time /\ b.start_time < a.end_time)

\* C4: with working hours and internal events permitting, evaluate rejects
\* every candidate that overlaps a pending / confirmed / completed booking of
\* the staff member and accepts a candidate that only touches the bookings.
C4_OverlapRejectedTouchAccepted ==
  \A emp \in Employees, c \in Intervals :
    (InsideRule(emp, c[1], c[2]) /\ NoEventIn(emp, c[1], c[2])) =>
      LET blocking == {b \in bookings :
                         /\ b.employee_id = emp
                         /\ b.status \in {"pending", "confirmed", "completed"}
                         /\ c[1] < b.end_time /\ b.start_time < c[2]}
      IN check_availability(emp, c[1], c[2]).is_available <=> (blocking = {})

\* a create request for which working hours, events and pricing all permit
Permitted(req) ==
  /\ BookingCreate_valid(req)
  /\ InsideRule(req.employee_id, req.start_time, req.end_time)
  /\ NoEventIn(req.employee_id, req.start_time, req.end_time)
  /\ get_service_variant_by_id(req.service_variant_id) # {}

BlockedByActive(req) ==
  \E b \in bookings :
    /\ b.employee_id = req.employee_id
    /\ Active(b)
    /\ Overlap(req.start_time, req.end_time, b.start_time, b.end_time)

\* C5: cancelled and no_show bookings never block, the others do: a
\* permitted create answers conflict when its interval overlaps a booking of
\* the staff member that is neither cancelled nor no_show, and succeeds
\* otherwise (in particular once the overlapped booking has been cancelled).
C5_BlockedUntilCancelled ==
  [][\A req \in CreateRequests :
       (CreateBooking(req) /\ Permitted(req)) =>
         IF BlockedByActive(req)
           THEN last'.outcome = "conflict" /\ bookings' = bookings
           ELSE last'.outcome = "ok"]_vars

\* the slot starts of get_available_slots's output
SlotSet(slots) == {slots[i] : i \in 1 .. Len(slots)}

Durations == 1 .. MaxDuration
SlotIntervals == 1 .. MaxInterval

\* C6: every slot returned by generate is reported available by evaluate on
\* the same store state.
C6_SlotsAreAvailable ==
  \A emp \in Employees, date \in Dates, dur \in Durations, iv \in SlotIntervals :
    \A s \in SlotSet(get_available_slots(emp, date, dur, iv)) :
      check_availability(emp, s.start_time, s.end_time).is_available

\* C6 witness: a store with internal events and an active booking for a
\* staff member whose generate output is non-empty yet misses a cursor
\* position of the day.
C6_Witness ==
  \E emp \in Employees, dur \in Durations, iv \in SlotIntervals :
    LET slots == get_available_slots(emp, 0, dur, iv)
    IN /\ Len(slots) > 0
       /\ \E ev \in internal_events : ev.employee_id = emp
       /\ \E b \in bookings : b.employee_id = emp /\ Active(b)
       /\ \E wh \in working_hours :
            /\ wh.employee_id = emp /\ wh.day_of_week = 1
            /\ wh.start_time + dur <= wh.end_time
            /\ [start_time |-> wh.start_time, end_time |-> wh.start_time + dur]
                 \notin SlotSet(slots)

\* C7: generate offers exactly what evaluate accepts: each cursor position
\* of each rule of the date's weekday is in generate's output iff evaluate
\* reports the candidate available.
C7_GenerateIffEvaluate ==
  \A emp \in Employees, date \in Dates, dur \in Durations, iv \in SlotIntervals :
    \A wh \in working_hours :
      (wh.employee_id = emp /\ wh.day_of_week = isoweekday(date * DayLen)) =>
        \A k \in 0 .. DayLen :
          LET start == date * DayLen + wh.start_time + k * iv
          IN (start + dur <= date * DayLen + wh.end_time) =>
               ( [start_time |-> start, end_time |-> start + dur]
                   \in SlotSet(get_available_slots(emp, date, dur, iv))
                 <=> check_availability(emp, start, start + dur).is_available )

\* the transitions of the booking state machine
AllowedTransitions ==
  { <<"pending", "confirmed">>, <<"confirmed", "completed">>,
    <<"pending", "cancelled">>, <<"confirmed", "cancelled">>,
    <<"pending", "no_show">>, <<"confirmed", "no_show">> }

\* C8: a booking's status changes only along the state machine; completed,
\* cancelled and no_show are never left.
C8_StatusMachine ==
  [][\A b \in bookings : \A c \in bookings' :
       (c.id = b.id /\ c.status # b.status)
         => <<b.status, c.status>> \in AllowedTransitions]_vars

\* C9: when evaluate reports the interval available and the variant exists,
\* create persists exactly one new booking with the requested customer,
\* location, staff, variant, start, end and note, in status pending, and
\* returns it.
C9_CreatePersistsRequest ==
  [][\A req \in CreateRequests :
       ( /\ CreateBooking(req)
         /\ BookingCreate_valid(req)
         /\ check_availability(req.employee_id, req.start_time, req.end_time).is_available
         /\ get_service_variant_by_id(req.service_variant_id) # {} )
       => \E nb \in bookings' :
            /\ \A b \in bookings : b.id # nb.id
            /\ bookings' = bookings \cup {nb}
            /\ nb.customer_id = req.customer_id
            /\ nb.location_id = req.location_id
            /\ nb.employee_id = req.employee_id
            /\ nb.service_variant_id = req.service_variant_id
            /\ nb.start_time = req.start_time
            /\ nb.end_time = req.end_time
            /\ nb.customer_note = req.customer_note
            /\ nb.status = "pending"
            /\ last'.outcome = "ok"
            /\ last'.booking = nb]_vars

\* C9 witness: a create has just returned a stored pending booking that
\* carries a customer note.
C9_Witness ==
  /\ last.op = "create" /\ last.outcome = "ok"
  /\ last.booking \in bookings
  /\ last.booking.status = "pending"
  /\ last.booking.customer_note = Some("n1")

\* C10: when evaluate reports the interval unavailable, create fails with a
\* conflict error carrying the verdict's reason and stores nothing.
C10_UnavailableIsConflict ==
  [][\A req \in CreateRequests :
       LET verdict == check_availability(req.employee_id, req.start_time, req.end_time)
       IN (CreateBooking(req) /\ BookingCreate_valid(req) /\ ~verdict.is_available)
            => /\ last'.op = "create"
               /\ last'.outcome = "conflict"
               /\ last'.message = "Employee not available"
               /\ last'.reason = verdict.reason
               /\ last'.booking = NoBooking
               /\ bookings' = bookings]_vars

\* C10 witness: a create has just been refused because of an internal event
\* while bookings are stored.
C10_Witness ==
  /\ last.op = "create" /\ last.outcome = "conflict"
  /\ last.reason.kind = "internal_event"
  /\ bookings # {}

\* two finished calls of different processes that were in flight together
RacedPair(p, q) ==
  /\ p # q
  /\ procs[p].pc = "done" /\ procs[q].pc = "done"
  /\ q \in procs[p].raced /\ p \in procs[q].raced

\* the calls of p and q ask for overlapping intervals of one staff member,
\* both requests are well formed, and each interval is inside working hours,
\* free of internal events and free of the bookings (other than the one the
\* call moves) stored when the call started
Contend(p, q) ==
  LET tp == procs[p].target
      tq == procs[q].target
  IN /\ tp[1] = tq[1]
     /\ tp[2] < tp[3] /\ tq[2] < tq[3]
     /\ Overlap(tp[2], tp[3], tq[2], tq[3])
     /\ \A r \in {p, q} :
          /\ procs[r].res.outcome \notin {"validation", "not_found", "server_error"}
          /\ InsideRule(procs[r].target[1], procs[r].target[2], procs[r].target[3])
          /\ NoEventIn(procs[r].target[1], procs[r].target[2], procs[r].target[3])
          /\ \A b \in procs[r].seen :
               (b.id # procs[r].id /\ b.employee_id = procs[r].target[1] /\ Active(b))
                 => ~Overlap(procs[r].target[2], procs[r].target[3],
                             b.start_time, b.end_time)

\* C2: two concurrent creates for one staff member with overlapping
\* intervals end with exactly one success and one conflict failure.
C2_OneCreateWins ==
  \A p \in Procs, q \in Procs :
    ( /\ RacedPair(p, q) /\ Contend(p, q)
      /\ procs[p].op = "create" /\ procs[q].op = "create" )
    => {procs[p].res.outcome, procs[q].res.outcome} = {"ok", "conflict"}

\* C3: a reschedule concurrent with a create or with a reschedule of another
\* booking of the same staff member, with overlapping target intervals: at
\* most one of them commits and the loser gets the availability conflict.
C3_OneRescheduleWins ==
  \A p \in Procs, q \in Procs :
    ( /\ RacedPair(p, q) /\ Contend(p, q)
      /\ procs[p].op = "reschedule"
      /\ (procs[q].op = "reschedule" => procs[q].id # procs[p].id) )
    => /\ ~(procs[p].res.outcome = "ok" /\ procs[q].res.outcome = "ok")
       /\ \A r \in {p, q} :
            procs[r].res.outcome # "ok"
              => /\ procs[r].res.outcome = "conflict"
                 /\ procs[r].res.message \in {"Employee not available",
                                              "New time slot not available"}

\* ------------------------------------------- cancelling, responses observed
CancelCreateRequests ==
  { BookingCreate("c1", "e1", "v1", 0, 1, None, None),
    BookingCreate("c2", "e1", "v2", 0, 2, Some(999), Some("n1")) }

NextCancel ==
  \/ \E req \in CancelCreateRequests : CreateBooking(req)
  \/ \E id \in BookingIds : CancelBooking(id)
  \/ \E id \in BookingIds, st \in BookingStatusEnum : UpdateBookingStatus(id, st)

SpecCancel == InitObserved /\ [][NextCancel]_vars

\* C11: cancel of an absent booking id fails with not-found, cancel of a
\* cancelled or completed booking fails with conflict, and in both cases the
\* store of bookings is left as it was.
C11_CancelRefused ==
  [][\A id \in BookingIds :
       CancelBooking(id) =>
         /\ (get_booking_by_id(id) = {}
               => last'.outcome = "not_found" /\ bookings' = bookings)
         /\ \A b \in bookings :
              (b.id = id /\ b.status \in {"cancelled", "completed"})
                => /\ last'.outcome = "conflict"
                   /\ last'.reason = [kind |-> "status", status |-> b.status]
                   /\ bookings' = bookings]_vars

\* C11 witness: a cancel has just been refused on a completed booking.
C11_Witness ==
  /\ last.op = "cancel" /\ last.outcome = "conflict"
  /\ last.reason = [kind |-> "status", status |-> "completed"]
  /\ \E b \in bookings : b.status = "completed"

\* C12: a successful cancel of a pending or confirmed booking sets that
\* booking's status to cancelled and changes nothing else: the row stays
\* with the same interval, staff, price and note, and no other row is
\* modified or removed.
C12_CancelFrame ==
  [][\A id \in BookingIds : \A b \in bookings :
       (CancelBooking(id) /\ b.id = id /\ b.status \in {"pending", "confirmed"})
         => /\ last'.outcome = "ok"
            /\ last'.booking = [b EXCEPT !.status = "cancelled"]
            /\ bookings' = (bookings \ {b}) \cup {[b EXCEPT !.status = "cancelled"]}]_vars

\* C12 witness: a cancel has just succeeded on a booking that carries a
\* note, next to another booking that is still stored.
C12_Witness ==
  /\ last.op = "cancel" /\ last.outcome = "ok"
  /\ last.booking \in bookings
  /\ last.booking.status = "cancelled"
  /\ last.booking.customer_note = Some("n1")
  /\ \E o \in bookings : o.id # last.booking.id

\* ----------------------------------------------- evaluate, step by step
\* the staff member has a working-hours rule on the weekday of tick s
HasRuleOn(employee_id, s) ==
  \E wh \in working_hours :
    wh.employee_id = employee_id /\ wh.day_of_week = isoweekday(s)

\* C13: evaluate returns available only if one working-hours rule of the
\* start's weekday contains the whole interval on that calendar day; when
\* the weekday has rules and none contains it, the verdict is unavailable
\* with the outside-working-hours reason.  Intervals ending on a later
\* calendar day than they start are among the candidates.
C13_ContainedInOneRule ==
  \A emp \in Employees, c \in Intervals :
    LET verdict == check_availability(emp, c[1], c[2])
    IN /\ verdict.is_available => InsideRule(emp, c[1], c[2])
       /\ (HasRuleOn(emp, c[1]) /\ ~InsideRule(emp, c[1], c[2]))
            => /\ ~verdict.is_available
               /\ verdict.reason.kind = "outside_hours"

\* evaluate's own working-hours steps let the interval through
HoursCheckPassed(employee_id, s, e) ==
  check_availability(employee_id, s, e).reason.kind \notin {"not_working", "outside_hours"}

EventsOver(employee_id, s, e) ==
  {ev \in internal_events :
     ev.employee_id = employee_id /\ ev.start_time < e /\ s < ev.end_time}

\* C14: once the working-hours check has passed, evaluate answers
\* unavailable, naming category and interval of an overlapping event,
\* whenever an internal event of the staff member overlaps the interval
\* (half-open test); with no overlapping event, in particular with events
\* that only touch the interval, no event makes it unavailable.
C14_EventOverlapBlocks ==
  \A emp \in Employees, c \in Intervals :
    HoursCheckPassed(emp, c[1], c[2]) =>
      LET verdict == check_availability(emp, c[1], c[2])
          over == EventsOver(emp, c[1], c[2])
      IN IF over # {}
           THEN /\ ~verdict.is_available
                /\ \E ev \in over :
                     verdict.reason = [kind |-> "internal_event", type |-> ev.type,
                                       start_time |-> ev.start_time,
                                       end_time |-> ev.end_time]
           ELSE verdict.is_available

\* C14 witness: with bookings stored, one staff member has an interval that
\* an event overlaps, an interval that an event ends on and an interval that
\* an event begins on, all three past the working-hours check.
C14_Witness ==
  /\ bookings # {}
  /\ \E emp \in Employees, a \in Intervals, b \in Intervals, c \in Intervals :
       /\ HoursCheckPassed(emp, a[1], a[2]) /\ EventsOver(emp, a[1], a[2]) # {}
       /\ HoursCheckPassed(emp, b[1], b[2])
       /\ \E ev \in internal_events : ev.employee_id = emp /\ ev.end_time = b[1]
       /\ HoursCheckPassed(emp, c[1], c[2])
       /\ \E ev \in internal_events : ev.employee_id = emp /\ ev.start_time = c[2]

\* ----------------------------------------- rescheduling, responses observed
ReschedCreateRequests ==
  { BookingCreate("c1", "e1", "v1", 0, 1, None, None),
    BookingCreate("c2", "e1", "v1", 2, 3, None, Some("n1")) }

ReschedUpdateRequests ==
  { BookingUpdate(None, None, Some("n2")),
    BookingUpdate(None, Some(2), None),
    BookingUpdate(Some(0), Some(2), None),
    BookingUpdate(None, Some(3), None) }

NextResched ==
  \/ \E req \in ReschedCreateRequests : CreateBooking(req)
  \/ \E id \in BookingIds, upd \in ReschedUpdateRequests : RescheduleBooking(id, upd)
  \/ \E id \in BookingIds : UpdateBookingStatus(id, "confirmed")

SpecResched == InitObserved /\ [][NextResched]_vars

\* the interval a reschedule of row b asks for
NewStart(b, upd) == IF upd.start_time # None THEN upd.start_time[1] ELSE b.start_time
NewEnd(b, upd) == IF upd.end_time # None THEN upd.end_time[1] ELSE b.end_time

\* an active booking of b's staff member, other than b, overlaps [s, e)
OtherBookingIn(b, s, e) ==
  \E o \in bookings :
    /\ o.id # b.id /\ o.employee_id = b.employee_id /\ Active(o)
    /\ Overlap(s, e, o.start_time, o.end_time)

SuppliesSomething(upd) ==
  upd.start_time # None \/ upd.end_time # None \/ upd.customer_note # None

\* the row a reschedule of b with upd is to leave behind
Moved(b, upd) ==
  [b EXCEPT !.start_time = NewStart(b, upd),
            !.end_time = NewEnd(b, upd),
            !.customer_note = IF upd.customer_note # None THEN upd.customer_note ELSE @]

\* C15: reschedule does not count the moved booking as a conflict with
\* itself: a well-formed reschedule of a pending or confirmed booking whose
\* new interval overlaps the booking's own current interval (a note-only
\* change included), lies inside working hours and overlaps no internal
\* event and no other active booking of the staff member succeeds and
\* stores the new interval and note.
C15_NoSelfConflict ==
  [][\A id \in BookingIds, upd \in ReschedUpdateRequests : \A b \in bookings :
       ( /\ b.id = id /\ b.status \in {"pending", "confirmed"}
         /\ BookingUpdate_valid(upd) /\ SuppliesSomething(upd)
         /\ NewStart(b, upd) < NewEnd(b, upd)
         /\ Overlap(NewStart(b, upd), NewEnd(b, upd), b.start_time, b.end_time)
         /\ InsideRule(b.employee_id, NewStart(b, upd), NewEnd(b, upd))
         /\ NoEventIn(b.employee_id, NewStart(b, upd), NewEnd(b, upd))
         /\ ~OtherBookingIn(b, NewStart(b, upd), NewEnd(b, upd))
         /\ RescheduleBooking(id, upd) )
       => /\ last'.outcome = "ok"
          /\ last'.booking = Moved(b, upd)
          /\ bookings' = (bookings \ {b}) \cup {Moved(b, upd)}]_vars

\* C15 witness: a reschedule has just stretched the confirmed booking that
\* was created on [0, 1) to [0, 2), over its own former interval.
C15_Witness ==
  /\ last.op = "reschedule" /\ last.outcome = "ok"
  /\ last.booking \in bookings
  /\ last.booking.customer_id = "c1"
  /\ last.booking.status = "confirmed"
  /\ last.booking.start_time = 0 /\ last.booking.end_time = 2
  /\ \A o \in bookings :
       o.id # last.booking.id => ~Overlap(0, 2, o.start_time, o.end_time)

\* C16: a well-formed reschedule of an absent booking id fails with
\* not-found, and one whose effective new interval is outside working hours,
\* overlaps an internal event or overlaps another active booking of the
\* staff member fails with conflict; in both cases every stored booking
\* keeps its interval and note.
C16_RescheduleRefused ==
  [][\A id \in BookingIds, upd \in ReschedUpdateRequests :
       (BookingUpdate_valid(upd) /\ RescheduleBooking(id, upd)) =>
         /\ (get_booking_by_id(id) = {}
               => last'.outcome = "not_found" /\ bookings' = bookings)
         /\ \A b \in bookings :
              ( /\ b.id = id
                /\ \/ ~InsideRule(b.employee_id, NewStart(b, upd), NewEnd(b, upd))
                   \/ ~NoEventIn(b.employee_id, NewStart(b, upd), NewEnd(b, upd))
                   \/ OtherBookingIn(b, NewStart(b, upd), NewEnd(b, upd)) )
              => last'.outcome = "conflict" /\ bookings' = bookings]_vars

\* C19: every stored booking ends after it starts, whatever create and
\* reschedule calls were made, reschedules supplying one bound included.
C19_EndAfterStart ==
  \A b \in bookings : b.end_time > b.start_time

\* ------------------------------------------------------------- pricing
\* the staff-skill rows of exactly this (staff, variant) pair that carry a
\* custom price
CustomPriceRows(employee_id, variant_id) ==
  {sk \in employee_skills :
     /\ sk.employee_id = employee_id
     /\ sk.service_variant_id = variant_id
     /\ sk.custom_price # None}

\* C17: the total price of a booking stored by create is the custom price of
\* the staff-skill row of exactly the request's (staff, variant) pair when
\* that row exists with a non-null custom price, and the variant's base
\* price in every other case.
C17_ResolvedPrice ==
  [][\A req \in CreateRequests :
       (last'.op = "create" /\ last'.outcome = "ok" /\ CreateBooking(req)) =>
         /\ last'.booking \in bookings'
         /\ \A sv \in service_variants :
              sv.id = req.service_variant_id =>
                IF CustomPriceRows(req.employee_id, sv.id) # {}
                  THEN \E sk \in CustomPriceRows(req.employee_id, sv.id) :
                         last'.booking.total_price = sk.custom_price[1]
                  ELSE last'.booking.total_price = sv.price]_vars

\* C17 witness: create has just stored a booking at the override 400 of a
\* variant whose base price is 500, next to a booking stored at a base price
\* because the staff member's skill row for that variant has no custom price.
C17_Witness ==
  /\ last.op = "create" /\ last.outcome = "ok"
  /\ last.booking \in bookings
  /\ last.booking.total_price = 400
  /\ \E sv \in service_variants :
       sv.id = last.booking.service_variant_id /\ sv.price = 500
  /\ \E b \in bookings, sv \in service_variants, sk \in employee_skills :
       /\ sv.id = b.service_variant_id /\ b.total_price = sv.price
       /\ sk.employee_id = b.employee_id /\ sk.service_variant_id = sv.id
       /\ sk.custom_price = None

CustomPrices == {None, Some(0), Some(0 - 50), Some(450)}

PricingCreateRequests ==
  { BookingCreate("c1", "e2", "v1", 0, 1, None, None),
    BookingCreate("c1", "e1", "v1", 0, 1, None, None),
    BookingCreate("c2", "e2", "v2", 1, 2, Some(999), None) }

\* POST /employees/{employee_id}/skills: INSERT ... ON CONFLICT DO NOTHING
AddEmployeeSkill(employee_id, service_variant_id, custom_price) ==
  LET present == \E sk \in employee_skills :
                   /\ sk.employee_id = employee_id
                   /\ sk.service_variant_id = service_variant_id
      row == [employee_id |-> employee_id,
              service_variant_id |-> service_variant_id,
              custom_price |-> custom_price]
  IN /\ get_service_variant_by_id(service_variant_id) # {}
     /\ employee_skills' = IF present THEN employee_skills
                           ELSE employee_skills \cup {row}
     /\ Returns("add_skill",
                Response(IF present THEN "not_found" ELSE "ok",
                         IF present THEN "Skill already exists or service variant not found"
                         ELSE "Skill added successfully",
                         NoReason, NoBooking))
     /\ UNCHANGED <<working_hours, internal_events, service_variants,
                    bookings, nextId, now, observe, procs>>

NextPricing ==
  \/ \E emp \in Employees, v \in VariantIds, cp \in CustomPrices :
       AddEmployeeSkill(emp, v, cp)
  \/ \E req \in PricingCreateRequests : CreateBooking(req)

SpecPricing == Init /\ [][NextPricing]_vars

\* C20: every booking stored by create has a total price above 0, whether
\* the price is the variant's base price or a staff-skill custom price.
C20_PricePositive ==
  \A b \in bookings : b.total_price > 0

\* ------------------------------------------------- malformed requests
\* GET /bookings/availability: the router's range test, then evaluate
availability_query(employee_id, start_time, end_time) ==
  LET verdict == check_availability(employee_id, start_time, end_time)
  IN IF end_time <= start_time
       THEN Response("bad_request", "end_time must be after start_time", NoReason, NoBooking)
     ELSE Response(IF verdict.is_available THEN "available" ELSE "unavailable",
                   "", verdict.reason, NoBooking)

CheckAvailability(employee_id, start_time, end_time) ==
  /\ Returns("availability", availability_query(employee_id, start_time, end_time))
  /\ UNCHANGED <<store, bookings, nextId, now, observe, procs>>

ValidateCreateRequests ==
  { BookingCreate("c1", "e1", "v1", 0, 1, None, None),
    BookingCreate("c1", "e2", "v1", 2, 2, None, None),
    BookingCreate("c1", "e2", "v1", 2, 1, None, None),
    BookingCreate("c1", "e1", "v1", 0 - 1, 1, None, None) }

ValidateUpdateRequests ==
  { BookingUpdate(None, Some(2), None),
    BookingUpdate(Some(0 - 1), None, None),
    BookingUpdate(Some(0 - 1), Some(2), Some("n2")),
    BookingUpdate(Some(1), Some(1), None),
    BookingUpdate(Some(2), Some(1), None) }

ValidateQueries == {<<0, 1>>, <<1, 1>>, <<2, 1>>, <<0 - 1, 0 - 2>>}

NextValidate ==
  \/ \E req \in ValidateCreateRequests : CreateBooking(req)
  \/ \E id \in BookingIds, upd \in ValidateUpdateRequests : RescheduleBooking(id, upd)
  \/ \E emp \in Employees, q \in ValidateQueries : CheckAvailability(emp, q[1], q[2])

SpecValidate == InitObserved /\ [][NextValidate]_vars

\* the responses that reject a request for its form: pydantic's 422 and the
\* router's BadRequestError
FormRejections == {"validation", "bad_request"}

HoursRequests ==
  { [employee_id |-> "e2", day_of_week |-> 1, start_time |-> 1, end_time |-> 3],
    [employee_id |-> "e1", day_of_week |-> 2, start_time |-> 0, end_time |-> 2],
    [employee_id |-> "e2", day_of_week |-> 1, start_time |-> 2, end_time |-> 1] }

AddWorkingHours(working_hours_data) ==
  /\ working_hours' = working_hours \cup {working_hours_data}
  /\ Returns("add_working_hours", Response("ok", "", NoReason, NoBooking))
  /\ UNCHANGED <<internal_events, service_variants, employee_skills,
                 bookings, nextId, now, observe, procs>>

\* variant: the query puts a hold on the first slot it returns
GetAvailableSlots_HoldsFirst(employee_id, date, duration_minutes, slot_interval_minutes) ==
  LET slots == get_available_slots(employee_id, date, duration_minutes,
                                   slot_interval_minutes)
  IN /\ Returns("slots", [outcome |-> "ok", slots |-> slots])
     /\ internal_events' =
          IF Len(slots) = 0 THEN internal_events
          ELSE internal_events \cup
                 {[employee_id |-> employee_id, type |-> "hold",
                   start_time |-> slots[1].start_time, end_time |-> slots[1].end_time]}
     /\ UNCHANGED <<working_hours, service_variants, employee_skills,
                    bookings, nextId, now, observe, procs>>

\* GET /employees/{employee_id}/available-slots
GetAvailableSlots(employee_id, date, duration_minutes, slot_interval_minutes) ==
  /\ Returns("slots",
             [outcome |-> "ok",
              slots |-> get_available_slots(employee_id, date, duration_minutes,
                                            slot_interval_minutes)])
  /\ UNCHANGED <<store, bookings, nextId, now, observe, procs>>

SlotCreateRequests ==
  { BookingCreate("c1", "e1", "v1", 0, 1, None, None),
    BookingCreate("c2", "e2", "v2", 1, 2, None, None) }

\* the employees table in the order get_employees returns it
EmployeeRows ==
  << [id |-> "e1", location_id |-> "l1"], [id |-> "e2", location_id |-> "l1"] >>

get_employees(location_id) ==
  SelectSeq(EmployeeRows, LAMBDA r : r.location_id = location_id)

get_employee_by_id(employee_id) ==
  SelectSeq(EmployeeRows, LAMBDA r : r.id = employee_id)

\* slot_interval_minutes left at its default by the pooled query
DefaultSlotInterval == 1

\* sorted(slots_map.keys())
RECURSIVE SortedTimes(_)
SortedTimes(S) ==
  IF S = {} THEN <<>>
  ELSE LET m == CHOOSE x \in S : \A y \in S : x <= y
       IN <<m>> \o SortedTimes(S \ {m})

\* slots_map[t]: one append of emp.id per slot of emp that starts at t, the
\* employees taken in order
RECURSIVE slots_map(_, _, _, _)
slots_map(employees_to_check, t, date, duration) ==
  IF employees_to_check = <<>> THEN <<>>
  ELSE LET emp == Head(employees_to_check)
           emp_slots == get_available_slots(emp.id, date, duration, DefaultSlotInterval)
           hits == SelectSeq(emp_slots, LAMBDA slot : slot.start_time = t)
       IN [i \in 1 .. Len(hits) |-> emp.id]
            \o slots_map(Tail(employees_to_check), t, date, duration)

\* BookingService.get_available_slots_for_booking
get_available_slots_for_booking(date, service_variant_id, location_id, employee_id) ==
  LET variant == get_service_variant_by_id(service_variant_id)
      duration == (CHOOSE v \in variant : TRUE).duration_minutes
      employees_to_check ==
        IF employee_id # None THEN get_employee_by_id(employee_id[1])
        ELSE get_employees(location_id)
      keys == UNION { {slot.start_time :
                         slot \in SlotSet(get_available_slots(employees_to_check[i].id, date,
                                                              duration, DefaultSlotInterval))} :
                      i \in 1 .. Len(employees_to_check) }
      sorted_times == SortedTimes(keys)
  IN IF variant = {}
       THEN [outcome |-> "not_found", slots |-> <<>>]
     ELSE IF employee_id # None /\ employees_to_check = <<>>
       THEN [outcome |-> "not_found", slots |-> <<>>]
     ELSE [outcome |-> "ok",
           slots |-> [i \in 1 .. Len(sorted_times) |->
                        [start_time |-> sorted_times[i],
                         employee_ids |-> slots_map(employees_to_check, sorted_times[i],
                                                    date, duration)]]]

\* GET /bookings/slots
GetBookingSlots(date, service_variant_id, location_id, employee_id) ==
  /\ Returns("booking_slots",
             get_available_slots_for_booking(date, service_variant_id, location_id,
                                             employee_id))
  /\ UNCHANGED <<store, bookings, nextId, now, observe, procs>>

\* <<date, service_variant_id, location_id, employee_id>>
BookingSlotQueries ==
  { <<0, "v1", "l1", None>>, <<0, "v2", "l1", Some("e2")>>, <<0, "v9", "l1", None>> }

\* <<employee_id, date, duration_minutes, slot_interval_minutes>>
SlotQueries ==
  { <<"e1", 0, 1, 1>>, <<"e1", 0, 2, 1>>, <<"e2", 0, 1, 1>>,
    <<"e2", 0, 1, 2>>, <<"e1", 1, 1, 1>> }

NextSlots ==
  \/ \E wh \in HoursRequests : AddWorkingHours(wh)
  \/ \E req \in SlotCreateRequests : CreateBooking(req)
  \/ \E q \in SlotQueries : GetAvailableSlots(q[1], q[2], q[3], q[4])
  \/ \E q \in BookingSlotQueries : GetBookingSlots(q[1], q[2], q[3], q[4])

SpecSlots == InitObserved /\ [][NextSlots]_vars

\* C22: the sequence returned by generate is in ascending start-time order
\* (no slot starts earlier than the slot before it), whatever working-hours
\* rules are stored for the staff member and weekday.
C22_SlotsAscending ==
  \A emp \in Employees, date \in Dates, dur \in Durations, iv \in SlotIntervals :
    LET slots == get_available_slots(emp, date, dur, iv)
    IN \A i \in 1 .. Len(slots) - 1 : slots[i].start_time <= slots[i + 1].start_time

C24_SetStatusFrame ==
  [][\A id \in BookingIds, st \in BookingStatusEnum :
       UpdateBookingStatus(id, st)
         => /\ UNCHANGED <<store, nextId>>
            /\ IF \E b \in bookings : b.id = id
                 THEN \A b \in bookings :
                        b.id = id
                          => /\ last'.outcome = "ok"
                             /\ last'.booking = [b EXCEPT !.status = st]
                             /\ bookings' = (bookings \ {b}) \cup {[b EXCEPT !.status = st]}
               ELSE /\ last'.outcome = "not_found"
                    /\ bookings' = bookings]_vars

\* C24 witness: a status has just been set on a booking that carries a note
\* and a price, next to another stored booking.
C24_Witness ==
  /\ last.op = "set_status" /\ last.outcome = "ok"
  /\ last.booking \in bookings
  /\ last.booking.status = "completed"
  /\ last.booking.customer_note = Some("n1")
  /\ \E o \in bookings : o.id # last.booking.id /\ o.status = "pending"

\* active bookings of the staff member that overlap [s, e)
BookingsOver(employee_id, s, e) ==
  {b \in bookings :
     /\ b.employee_id = employee_id
     /\ Active(b)
     /\ Overlap(s, e, b.start_time, b.end_time)}

\* C25: evaluate reports the reason of the first failing check in the fixed
\* order: no working-hours rule for the weekday, interval not inside any
\* rule, overlapping internal event, overlapping booking; with no rule on
\* the weekday the answer is not-working whatever events or bookings exist.
\* The candidates are the intervals that start and end on one calendar day.
C25_ReasonOrder ==
  \A emp \in Employees, c \in Intervals :
    DateOf(c[1]) = DateOf(c[2]) =>
      LET verdict == check_availability(emp, c[1], c[2])
      IN IF ~HasRuleOn(emp, c[1])
           THEN ~verdict.is_available /\ verdict.reason.kind = "not_working"
         ELSE IF ~InsideRule(emp, c[1], c[2])
           THEN ~verdict.is_available /\ verdict.reason.kind = "outside_hours"
         ELSE IF EventsOver(emp, c[1], c[2]) # {}
           THEN ~verdict.is_available /\ verdict.reason.kind = "internal_event"
         ELSE IF BookingsOver(emp, c[1], c[2]) # {}
           THEN ~verdict.is_available /\ verdict.reason.kind = "booking"
         ELSE verdict.is_available

\* ------------------------------- rescheduling with one bound left out
PartialCreateRequests ==
  { BookingCreate("c1", "e1", "v1", 0, 1, None, None),
    BookingCreate("c2", "e2", "v2", 0, 2, Some(999), Some("n1")) }

PartialUpdateRequests ==
  { BookingUpdate(Some(1), None, None),
    BookingUpdate(None, Some(3), None) }

NextPartial ==
  \/ \E req \in PartialCreateRequests : CreateBooking(req)
  \/ \E id \in BookingIds, upd \in PartialUpdateRequests : RescheduleBooking(id, upd)
  \/ \E id \in BookingIds : UpdateBookingStatus(id, "confirmed")

SpecPartial == InitObserved /\ [][NextPartial]_vars

\* C26: a reschedule that omits new_start or new_end evaluates availability
\* against the effective interval made of the supplied bound and the stored
\* other bound (it is refused with evaluate's reason when that interval is
\* unavailable), and on success the omitted bound, the staff member, the
\* status and the total price of the booking keep their stored values.
C26_PartialReschedule ==
  [][\A id \in BookingIds, upd \in PartialUpdateRequests : \A b \in bookings :
       ( /\ b.id = id
         /\ (upd.start_time = None \/ upd.end_time = None)
         /\ RescheduleBooking(id, upd) )
       => LET verdict == check_availability(b.employee_id, NewStart(b, upd), NewEnd(b, upd))
          IN IF verdict.is_available
               THEN /\ last'.outcome = "ok"
                    /\ last'.booking.start_time = NewStart(b, upd)
                    /\ last'.booking.end_time = NewEnd(b, upd)
                    /\ upd.start_time = None => last'.booking.start_time = b.start_time
                    /\ upd.end_time = None => last'.booking.end_time = b.end_time
                    /\ last'.booking.employee_id = b.employee_id
                    /\ last'.booking.status = b.status
                    /\ last'.booking.total_price = b.total_price
                    /\ bookings' = (bookings \ {b}) \cup {last'.booking}
             ELSE /\ last'.outcome = "conflict"
                  /\ last'.reason = verdict.reason
                  /\ bookings' = bookings]_vars

\* C26 witness: a reschedule that gave only a new start has just moved the
\* start of a confirmed booking and left its end where it was.
C26_Witness ==
  /\ last.op = "reschedule" /\ last.outcome = "ok"
  /\ last.booking \in bookings
  /\ last.booking.status = "confirmed"
  /\ last.booking.start_time = 1 /\ last.booking.end_time = 2
  /\ last.booking.total_price = 250

\* the staff members of the location whose own generate output has a slot
\* starting at t
StaffWithSlotAt(location_id, date, duration, t) ==
  {emp \in Employees :
     /\ \E i \in 1 .. Len(EmployeeRows) :
          EmployeeRows[i].id = emp /\ EmployeeRows[i].location_id = location_id
     /\ \E slot \in SlotSet(get_available_slots(emp, date, duration, DefaultSlotInterval)) :
          slot.start_time = t}

\* C27: the pooled slot query returns one entry per distinct start time, in
\* ascending start-time order, and the staff list of the entry for start
\* time t holds exactly the staff members of the location whose own generate
\* output has a slot starting at t, each staff member listed once.
C27_PooledSlots ==
  \A date \in Dates, v \in service_variants, loc \in Locations :
    LET out == get_available_slots_for_booking(date, v.id, loc, None).slots
    IN /\ \A i \in 1 .. Len(out) - 1 : out[i].start_time < out[i + 1].start_time
       /\ \A t \in Times :
            StaffWithSlotAt(loc, date, v.duration_minutes, t) # {}
              => \E i \in 1 .. Len(out) : out[i].start_time = t
       /\ \A i \in 1 .. Len(out) :
            LET ids == out[i].employee_ids
            IN /\ {ids[j] : j \in 1 .. Len(ids)}
                    = StaffWithSlotAt(loc, date, v.duration_minutes, out[i].start_time)
               /\ \A j \in 1 .. Len(ids), k \in 1 .. Len(ids) : j # k => ids[j] # ids[k]

\* the working-hours rules of the staff member for the weekday of the date
RulesOn(employee_id, date) ==
  {wh \in working_hours :
     wh.employee_id = employee_id /\ wh.day_of_week = isoweekday(date * DayLen)}

\* C28: for every duration >= 1 and interval >= 1, generate ends with a
\* finite sequence (at most one slot per tick of the day and rule) in which
\* every slot has length exactly duration and lies between the start and the
\* end of a working-hours rule of the day; for a staff member with no rule
\* on the date's weekday the sequence is empty.
C28_SlotsBounded ==
  \A emp \in Employees, date \in Dates, dur \in Durations, iv \in SlotIntervals :
    LET slots == get_available_slots(emp, date, dur, iv)
        rules == RulesOn(emp, date)
    IN /\ rules = {} => slots = <<>>
       /\ Len(slots) <= Cardinality(rules) * DayLen
       /\ \A i \in 1 .. Len(slots) :
            /\ slots[i].end_time - slots[i].start_time = dur
            /\ \E wh \in rules :
                 /\ date * DayLen + wh.start_time <= slots[i].start_time
                 /\ slots[i].end_time <= date * DayLen + wh.end_time

\* C28 witness: generate has just returned three or more slots for a day
\* with an added rule, and a staff member without a rule on Tuesday gets
\* the empty sequence.
C28_Witness ==
  /\ last.op = "slots"
  /\ Len(last.slots) >= 3
  /\ Cardinality(RulesOn("e2", 0)) >= 2
  /\ RulesOn("e2", 1) = {}
  /\ get_available_slots("e2", 1, 1, 1) = <<>>

\* ------------------------------- creates that differ in total_price only
\* total_price values a request may carry (the field is optional, > 0)
TotalPrices == {None, Some(1), Some(999)}

TwinCreateRequests ==
  { BookingCreate("c1", "e1", "v1", 0, 1, tp, None) : tp \in TotalPrices }
    \cup { BookingCreate("c2", "e2", "v1", 0, 1, tp, Some("n1")) : tp \in TotalPrices }
    \cup { BookingCreate("c2", "e2", "v2", 0, 2, tp, None) : tp \in TotalPrices }

NextTwin ==
  \/ \E req \in TwinCreateRequests : CreateBooking(req)
  \/ \E id \in BookingIds : CancelBooking(id)

SpecTwin == InitObserved /\ [][NextTwin]_vars

\* C29: the total price stored by create is the Pricing Resolver's result
\* for the request's (staff, service variant) pair: a create request that
\* differs from the one served only in the caller-supplied total_price would
\* have been accepted too and would have stored the same total price.
C29_PriceIgnoresRequest ==
  [][\A req \in TwinCreateRequests :
       (CreateBooking(req) /\ last'.outcome = "ok")
         => /\ last'.booking \in bookings'
            /\ last'.booking.total_price
                 = calculate_booking_price(req.employee_id, req.service_variant_id).price
            /\ \A tp \in TotalPrices :
                 LET twin == create_booking_check([req EXCEPT !.total_price = tp])
                 IN /\ twin.outcome = "proceed"
                    /\ twin.booking.total_price = last'.booking.total_price]_vars

\* C29 witness: a create has just stored a second booking of one (staff,
\* variant) pair and both rows carry the staff member's custom price 250.
C29_Witness ==
  /\ last.op = "create" /\ last.outcome = "ok"
  /\ last.booking.total_price = 250
  /\ \E b \in bookings :
       /\ b.id # last.booking.id
       /\ b.employee_id = last.booking.employee_id
       /\ b.service_variant_id = last.booking.service_variant_id
       /\ b.total_price = 250

\* ------------------------------- cancel interleaved with a status change
\* cancel_booking reads the row, awaits, and then issues the UPDATE of
\* update_booking_status; no lock is taken on the row in between.
RaceCreateRequests ==
  { BookingCreate("c1", "e1", "v1", 0, 1, None, None),
    BookingCreate("c2", "e2", "v2", 0, 2, None, Some("n1")) }

\* cancel_booking: get_booking_by_id and the status test
CancelBegin(p, booking_id) ==
  /\ procs[p].pc = "idle"
  /\ Begin(p, "cancel", booking_id, NoBooking, <<>>, cancel_booking_check(booking_id))
  /\ UNCHANGED <<store, bookings, nextId, now, observe, last>>

\* cancel_booking: booking_repo.update_booking_status(booking_id, 'cancelled')
CancelWrite(p) ==
  LET res == update_booking_status(procs[p].id, "cancelled")
  IN /\ procs[p].pc = "cancel_write"
     /\ bookings' = IF res.outcome = "ok" THEN Replace(bookings, res.booking) ELSE bookings
     /\ procs' = [procs EXCEPT ![p].pc = "done", ![p].res = res]
     /\ UNCHANGED <<store, nextId, now, observe, last>>

NextCancelRace ==
  \/ \E req \in RaceCreateRequests : Setup(req)
  \/ \E p \in Procs, id \in BookingIds : CancelBegin(p, id)
  \/ \E p \in Procs : CancelWrite(p)
  \/ \E id \in BookingIds : UpdateBookingStatus(id, "completed")

SpecCancelRace == Init /\ [][NextCancelRace]_vars

\* C30: when cancel(b) runs concurrently with setStatus(b, completed),
\* cancel's status check and status write act as one step: the write of a
\* cancel call never turns a booking that is completed by then into a
\* cancelled one.
C30_CancelAtomic ==
  [][\A p \in Procs : \A b \in bookings :
       ( /\ procs[p].pc = "cancel_write"
         /\ b.id = procs[p].id /\ b.status = "completed"
         /\ CancelWrite(p) )
         => \A c \in bookings' : c.id = b.id => c.status # "cancelled"]_vars

====
